---- MODULE Spec2Model ----
(***************************************************************************)
(* Token rotation service of the web client (lib/tokenRotation.ts):        *)
(* the exhaustion record kept in localStorage, the tracker operations on   *)
(* it, the quota-error classifier and the retry loop runWithTokenRotation. *)
(*                                                                         *)
(* JavaScript runs one turn at a time: everything between two awaits is    *)
(* one atomic action.  The clock (UTC date) and the other callers of the   *)
(* tracker act between turns.                                              *)
(***************************************************************************)
EXTENDS Integers, Sequences, FiniteSets, TLC

(***************************************************************************)
(* Bounds of the model.                                                    *)
(***************************************************************************)
\* number of UTC midnights that may pass
MaxDay == 1
\* length of the longest token list built from the tokens other callers use
MaxLen == 2
\* length of the longest token list a run is given
LongLen == 10
\* number of concurrent runs of runWithTokenRotation
NRuns == 2
\* length of the longest raw token string handed to parseTokens
RawLen == 4

(***************************************************************************)
(* Program constants.                                                      *)
(***************************************************************************)
MAX_RETRY_ATTEMPTS == 10

(***************************************************************************)
(* Value domains.                                                          *)
(***************************************************************************)
\* two of the TokenProvider values
Providers == {"gitee", "huggingface"}

\* token strings; all are non-empty, as parseTokens / loadTokensArray produce
TokenName ==
    <<"t1", "t2", "t3", "t4", "t5", "t6", "t7", "t8", "t9", "t10", "t11", "t12">>

\* the tokens that the other callers of the tracker pass
EnvTokens == {TokenName[1], TokenName[2]}

\* JavaScript null as returned by getNextAvailableToken / passed to operation
Null == "<null>"

Days == 0 .. MaxDay

RECURSIVE SeqsUpTo(_, _)
SeqsUpTo(S, n) ==
    IF n = 0 THEN {<<>>}
    ELSE LET shorter == SeqsUpTo(S, n - 1)
         IN  shorter \cup {Append(s, x) : s \in {q \in shorter : Len(q) = n - 1}, x \in S}

\* token lists over the callers' tokens (repetitions allowed)
ShortLists == SeqsUpTo(EnvTokens, MaxLen)

\* the list t1, ..., tn of n distinct tokens
Distinct(n) == [i \in 1 .. n |-> TokenName[i]]

\* the lists of distinct tokens around the retry cap
LongLists == {Distinct(n) : n \in MAX_RETRY_ATTEMPTS - 1 .. LongLen}

\* token lists handed to runWithTokenRotation
RunLists == ShortLists \cup LongLists

Range(s) == {s[i] : i \in 1 .. Len(s)}

(***************************************************************************)
(* The persisted record: the localStorage item 'zenith-token-status'.      *)
(*   kind  "absent"  getItem returns null                                  *)
(*         "text"    a string JSON.parse rejects                           *)
(*         "json"    a parsed object with fields date and exhausted        *)
(*   hasMap          the parsed object has an exhausted map                *)
(*   exhausted       provider -> set of tokens whose flag is true; a       *)
(*                   provider outside the domain has no entry              *)
(***************************************************************************)
NoMap == [p \in {} |-> {}]

Absent == [kind |-> "absent", date |-> 0, hasMap |-> FALSE, exhausted |-> NoMap]

Json(d, ex) == [kind |-> "json", date |-> d, hasMap |-> TRUE, exhausted |-> ex]

\* the in-memory TokenStatusStore { date, exhausted }
Store(d, ex) == [date |-> d, hasMap |-> TRUE, exhausted |-> ex]

getUTCDateString(now) == now

\* { date: getUTCDateString(), exhausted: {} }
FreshStore(now) == Store(getUTCDateString(now), NoMap)

\* a reader that redates a record of another day and keeps its flags
getTokenStatusStore_KeepsFlags(item, now) ==
    IF item.kind = "json"
    THEN [date |-> getUTCDateString(now), hasMap |-> item.hasMap,
          exhausted |-> item.exhausted]
    ELSE FreshStore(now)

\* a reader that forgets the date comparison of line 167
getTokenStatusStore_NoDateCheck(item, now) ==
    IF item.kind = "json"
    THEN [date |-> item.date, hasMap |-> item.hasMap, exhausted |-> item.exhausted]
    ELSE FreshStore(now)

getTokenStatusStore(item, now) ==
    IF item.kind = "json"
    THEN IF item.date # getUTCDateString(now)
         THEN FreshStore(now)
         ELSE [date |-> item.date, hasMap |-> item.hasMap, exhausted |-> item.exhausted]
    ELSE FreshStore(now)

\* store.exhausted[provider] throws a TypeError when the parsed record has
\* no exhausted map: lines 201, 209, 227, 247 and 263 run outside the try
TypeErrorRaised(item, now) == ~getTokenStatusStore(item, now).hasMap

\* localStorage.setItem(KEY, JSON.stringify(store))
saveTokenStatusStore(store) ==
    [kind |-> "json", date |-> store.date, hasMap |-> store.hasMap,
     exhausted |-> store.exhausted]

\* store.exhausted[provider] || {}
ExhaustedMap(store, provider) ==
    IF provider \in DOMAIN store.exhausted THEN store.exhausted[provider] ELSE {}

isTokenExhausted(item, now, provider, token) ==
    LET store == getTokenStatusStore(item, now)
    IN  provider \in DOMAIN store.exhausted /\ token \in store.exhausted[provider]

\* a marker that flags the token under every provider
markTokenExhausted_AllProviders(item, now, provider, token) ==
    LET store == getTokenStatusStore(item, now)
        marked == [p \in DOMAIN store.exhausted \cup Providers |->
                     (IF p \in DOMAIN store.exhausted THEN store.exhausted[p] ELSE {})
                       \cup {token}]
    IN  saveTokenStatusStore([store EXCEPT !.exhausted = marked])

\* a marker that replaces the provider's map by one holding the token alone
markTokenExhausted_Overwrite(item, now, provider, token) ==
    LET store == getTokenStatusStore(item, now)
        marked == [p \in DOMAIN store.exhausted \cup {provider} |->
                     IF p = provider THEN {token} ELSE store.exhausted[p]]
    IN  saveTokenStatusStore([store EXCEPT !.exhausted = marked])

\* a marker that starts from an empty store on every call
markTokenExhausted_FromFresh(item, now, provider, token) ==
    saveTokenStatusStore(Store(getUTCDateString(now), [p \in {provider} |-> {token}]))

\* a marker that forgets to save the store
markTokenExhausted_NotSaved(item, now, provider, token) == item

\* a marker that flips the flag instead of setting it
markTokenExhausted_Toggle(item, now, provider, token) ==
    LET store == getTokenStatusStore(item, now)
        withKey == IF provider \in DOMAIN store.exhausted
                   THEN store.exhausted
                   ELSE [p \in DOMAIN store.exhausted \cup {provider} |->
                           IF p = provider THEN {} ELSE store.exhausted[p]]
        marked == [withKey EXCEPT ![provider] =
                     IF token \in @ THEN @ \ {token} ELSE @ \cup {token}]
    IN  saveTokenStatusStore([store EXCEPT !.exhausted = marked])

\* the record markTokenExhausted persists
markTokenExhausted(item, now, provider, token) ==
    LET store == getTokenStatusStore(item, now)
        withKey == IF provider \in DOMAIN store.exhausted
                   THEN store.exhausted
                   ELSE [p \in DOMAIN store.exhausted \cup {provider} |->
                           IF p = provider THEN {} ELSE store.exhausted[p]]
        marked == [withKey EXCEPT ![provider] = @ \cup {token}]
    IN  saveTokenStatusStore([store EXCEPT !.exhausted = marked])

\* exhaustedMap is a plain object: exhaustedMap[token] also finds the properties
\* it inherits from Object.prototype, and every one of them is truthy
PrototypeKeys == {"constructor"}

\* the keys k for which exhaustedMap[k] is truthy
TruthyKeys(exhaustedMap) == exhaustedMap \cup PrototypeKeys

\* Array.prototype.find: the first element satisfying the test, or undefined
RECURSIVE Find(_, _)
Find(tokens, skip) ==
    IF tokens = <<>> THEN Null
    ELSE IF Head(tokens) \notin skip THEN Head(tokens)
    ELSE Find(Tail(tokens), skip)

\* a falsy string: '' (undefined is rendered as Null by Find)
Falsy(s) == s = "" \/ s = Null

\* a selector that looks for the last available token instead of the first
getNextAvailableToken_Last(item, now, provider, allTokens) ==
    IF Len(allTokens) = 0 THEN Null
    ELSE LET store == getTokenStatusStore(item, now)
             exhaustedMap == ExhaustedMap(store, provider)
             reversed == [i \in 1 .. Len(allTokens) |-> allTokens[Len(allTokens) + 1 - i]]
             found == Find(reversed, TruthyKeys(exhaustedMap))
         IN  IF Falsy(found) THEN Null ELSE found

getNextAvailableToken(item, now, provider, allTokens) ==
    IF Len(allTokens) = 0 THEN Null
    ELSE LET store == getTokenStatusStore(item, now)
             exhaustedMap == ExhaustedMap(store, provider)
             found == Find(allTokens, TruthyKeys(exhaustedMap))
         IN  IF Falsy(found) THEN Null ELSE found

\* statistics that count the flagged tokens of the list, not its positions
getTokenStats_DistinctTokens(item, now, provider, allTokens) ==
    LET store == getTokenStatusStore(item, now)
        exhaustedMap == ExhaustedMap(store, provider)
        exhaustedCount == Cardinality(Range(allTokens) \cap TruthyKeys(exhaustedMap))
    IN  [total |-> Len(allTokens),
         active |-> Len(allTokens) - exhaustedCount,
         exhausted |-> exhaustedCount]

getTokenStats(item, now, provider, allTokens) ==
    LET store == getTokenStatusStore(item, now)
        exhaustedMap == ExhaustedMap(store, provider)
        exhaustedCount == Cardinality({i \in 1 .. Len(allTokens) : allTokens[i] \in TruthyKeys(exhaustedMap)})
    IN  [total |-> Len(allTokens),
         active |-> Len(allTokens) - exhaustedCount,
         exhausted |-> exhaustedCount]

\* a provider reset that empties the whole map
resetProviderTokens_Everything(item, now, provider) ==
    LET store == getTokenStatusStore(item, now)
    IN  saveTokenStatusStore([store EXCEPT !.exhausted = NoMap])

\* the record resetProviderTokens persists
resetProviderTokens(item, now, provider) ==
    LET store == getTokenStatusStore(item, now)
        rest == [p \in DOMAIN store.exhausted \ {provider} |-> store.exhausted[p]]
    IN  saveTokenStatusStore([store EXCEPT !.exhausted = rest])

\* a reset that removes the item instead of writing a fresh one
resetAllTokens_RemovesItem(now) == Absent

\* the record resetAllTokens persists
resetAllTokens(now) == saveTokenStatusStore(FreshStore(now))

(***************************************************************************)
(* parseTokens.  A raw input is null (or undefined) or a string, spelled   *)
(* as its sequence of characters; FullWidthComma is U+FF0C, Tab U+0009.    *)
(***************************************************************************)
FullWidthComma == "U+FF0C"
Tab == "U+0009"

RawAlphabet == {"a", "b", ",", " ", Tab, FullWidthComma}

\* the characters String.prototype.trim removes, among those of the model
WhiteSpace == {" ", Tab}

RawNull == [null |-> TRUE, chars |-> <<>>]

RawString(cs) == [null |-> FALSE, chars |-> cs]

RawInputs == {RawNull} \cup {RawString(cs) : cs \in SeqsUpTo(RawAlphabet, RawLen)}

\* String.prototype.split with a one-character separator: the pieces
\* between the separators, the empty ones included
RECURSIVE Split(_, _)
Split(cs, seps) ==
    IF \A i \in 1 .. Len(cs) : cs[i] \notin seps THEN <<cs>>
    ELSE LET i == CHOOSE k \in 1 .. Len(cs) :
                      cs[k] \in seps /\ \A j \in 1 .. k - 1 : cs[j] \notin seps
         IN  <<SubSeq(cs, 1, i - 1)>> \o Split(SubSeq(cs, i + 1, Len(cs)), seps)

\* String.prototype.trim
RECURSIVE trim(_)
trim(cs) ==
    IF cs = <<>> THEN cs
    ELSE IF Head(cs) \in WhiteSpace THEN trim(Tail(cs))
    ELSE IF cs[Len(cs)] \in WhiteSpace THEN trim(SubSeq(cs, 1, Len(cs) - 1))
    ELSE cs

\* a parser that takes the full-width comma for a separator too
parseTokens_AnyComma(rawInput) ==
    IF rawInput.null \/ rawInput.chars = <<>> THEN <<>>
    ELSE LET pieces == Split(rawInput.chars, {",", FullWidthComma})
             trimmed == [i \in 1 .. Len(pieces) |-> trim(pieces[i])]
         IN  SelectSeq(trimmed, LAMBDA t : Len(t) > 0)

parseTokens(rawInput) ==
    IF rawInput.null \/ rawInput.chars = <<>> THEN <<>>
    ELSE LET pieces == Split(rawInput.chars, {","})
             trimmed == [i \in 1 .. Len(pieces) |-> trim(pieces[i])]
         IN  SelectSeq(trimmed, LAMBDA t : Len(t) > 0)

(***************************************************************************)
(* Strings as the classifier sees them.  Chars spells a message of the     *)
(* model's domain as its sequence of characters, so that toLowerCase and   *)
(* includes are computed rather than assumed.                              *)
(***************************************************************************)
Messages ==
    {"429", "Rate limit exceeded", "Too many requests", "QUOTA exceeded", "Invalid API key", "Network error", "",
     "429 Too Many Requests", "Rate-limited 42 9"}

Chars(m) ==
    CASE m = "429" -> <<"4", "2", "9">>
      [] m = "Rate limit exceeded" -> <<"R", "a", "t", "e", " ", "l", "i", "m", "i", "t", " ", "e", "x", "c", "e", "e", "d", "e", "d">>
      [] m = "Too many requests" -> <<"T", "o", "o", " ", "m", "a", "n", "y", " ", "r", "e", "q", "u", "e", "s", "t", "s">>
      [] m = "QUOTA exceeded" -> <<"Q", "U", "O", "T", "A", " ", "e", "x", "c", "e", "e", "d", "e", "d">>
      [] m = "Invalid API key" -> <<"I", "n", "v", "a", "l", "i", "d", " ", "A", "P", "I", " ", "k", "e", "y">>
      [] m = "Network error" -> <<"N", "e", "t", "w", "o", "r", "k", " ", "e", "r", "r", "o", "r">>
      [] m = "" -> <<>>
      [] m = "429 Too Many Requests" -> <<"4", "2", "9", " ", "T", "o", "o", " ", "M", "a", "n", "y", " ", "R", "e", "q", "u", "e", "s", "t", "s">>
      [] m = "Rate-limited 42 9" -> <<"R", "a", "t", "e", "-", "l", "i", "m", "i", "t", "e", "d", " ", "4", "2", " ", "9">>

UpperCase ==
    <<"A", "B", "C", "D", "E", "F", "G", "H", "I", "J", "K", "L", "M", "N", "O", "P", "Q", "R", "S", "T", "U", "V", "W", "X", "Y", "Z">>

LowerCase ==
    <<"a", "b", "c", "d", "e", "f", "g", "h", "i", "j", "k", "l", "m", "n", "o", "p", "q", "r", "s", "t", "u", "v", "w", "x", "y", "z">>

LowerChar(c) ==
    IF \E i \in 1 .. Len(UpperCase) : UpperCase[i] = c
    THEN LowerCase[CHOOSE i \in 1 .. Len(UpperCase) : UpperCase[i] = c]
    ELSE c

\* String.prototype.toLowerCase
toLowerCase(s) == [i \in 1 .. Len(s) |-> LowerChar(s[i])]

\* String.prototype.includes
includes(s, needle) ==
    \E i \in 1 .. Len(s) - Len(needle) + 1 : SubSeq(s, i, i + Len(needle) - 1) = needle

\* the four substrings isQuotaError looks for
MentionsQuota(s) ==
    \/ includes(s, <<"4", "2", "9">>)
    \/ includes(s, <<"r", "a", "t", "e", " ", "l", "i", "m", "i", "t">>)
    \/ includes(s, <<"q", "u", "o", "t", "a">>)
    \/ includes(s, <<"t", "o", "o", " ", "m", "a", "n", "y", " ", "r", "e", "q", "u", "e", "s", "t", "s">>)

(***************************************************************************)
(* Thrown values.                                                          *)
(*   type    "null" (any falsy value), "string" (a non-empty primitive),   *)
(*           "response" (instanceof Response), "error" (instanceof Error), *)
(*           "object" (any other object)                                   *)
(*   status  a number, NoStatus when the field is missing                  *)
(*   code, message, error   a string, NoField when missing or no string    *)
(***************************************************************************)
NoStatus == 0
NoField == "<undefined>"

Thrown(type, status, code, message, error) ==
    [type |-> type, status |-> status, code |-> code, message |-> message, error |-> error]

\* a classifier that forgets to lower-case the message and the error text
isQuotaError_CaseSensitive(e) ==
    IF e.type = "null" THEN FALSE
    ELSE IF e.type = "response" THEN e.status = 429
    ELSE LET isObject == e.type \in {"object", "error"}
             byFields ==
                 /\ isObject
                 /\ \/ e.status = 429
                    \/ e.code = "RATE_LIMITED" \/ e.code = "QUOTA_EXCEEDED"
                    \/ e.message # NoField /\ MentionsQuota(Chars(e.message))
                    \/ /\ e.error # NoField /\ e.error # ""
                       /\ MentionsQuota(Chars(e.error))
         IN  IF byFields THEN TRUE
             ELSE IF e.type = "error" THEN MentionsQuota(Chars(e.message))
             ELSE FALSE

isQuotaError(e) ==
    IF e.type = "null" THEN FALSE
    ELSE IF e.type = "response" THEN e.status = 429
    ELSE LET isObject == e.type \in {"object", "error"}
             byFields ==
                 /\ isObject
                 /\ \/ e.status = 429
                    \/ e.code = "RATE_LIMITED" \/ e.code = "QUOTA_EXCEEDED"
                    \/ e.message # NoField /\ MentionsQuota(toLowerCase(Chars(e.message)))
                    \/ /\ e.error # NoField /\ e.error # ""
                       /\ MentionsQuota(toLowerCase(Chars(e.error)))
         IN  IF byFields THEN TRUE
             ELSE IF e.type = "error" THEN MentionsQuota(toLowerCase(Chars(e.message)))
             ELSE FALSE

\* the values handed to isQuotaError.  A primitive has no field; a Response
\* has a status and none of code, message and error; the message of an
\* Error is a string.
StatusCodes == {429, 401, 500}

Codes == {"RATE_LIMITED", "QUOTA_EXCEEDED", "AUTH_INVALID"}

ThrownValues ==
    {Thrown("null", NoStatus, NoField, NoField, NoField),
     Thrown("string", NoStatus, NoField, NoField, NoField)}
    \cup {Thrown("response", st, NoField, NoField, NoField) : st \in StatusCodes}
    \cup {Thrown("object", st, c, m, er) :
             st \in StatusCodes \cup {NoStatus}, c \in Codes \cup {NoField},
             m \in Messages \cup {NoField}, er \in Messages \cup {NoField}}
    \cup {Thrown("error", st, c, m, er) :
             st \in StatusCodes \cup {NoStatus}, c \in Codes \cup {NoField},
             m \in Messages, er \in Messages \cup {NoField}}

\* error instanceof Error ? error.message : 'Unknown error'
ErrorText(e) == IF e.type = "error" THEN e.message ELSE "Unknown error"

\* what the operation passed to runWithTokenRotation throws in this model
RunErrors ==
    {Thrown("error", NoStatus, NoField, "Rate limit exceeded", NoField),
     Thrown("object", 429, NoField, NoField, NoField),
     Thrown("error", NoStatus, "AUTH_INVALID", "Invalid API key", NoField),
     Thrown("object", 500, NoField, NoField, NoField)}

\* what the operation resolves to
Data == {"img1", "img2"}

(***************************************************************************)
(* State.                                                                  *)
(***************************************************************************)
VARIABLES
    today,   \* the current UTC date, as a day number
    stored,  \* the persisted record
    runs,    \* the runs of runWithTokenRotation, by run identifier
    last     \* what the caller of the latest library call observed

vars == <<today, stored, runs, last>>

Runs == 1 .. NRuns

\* TokenRotationResult / TokenRotationError; kind names the return statement
Result(kind, success, data, tokenUsed, error, isAllExhausted) ==
    [kind |-> kind, success |-> success, data |-> data, tokenUsed |-> tokenUsed,
     error |-> error, isAllExhausted |-> isAllExhausted]

Pending == Result("pending", FALSE, "", Null, "", FALSE)

Success(data, tokenUsed) == Result("success", TRUE, data, tokenUsed, "", FALSE)

Failure(kind, error, isAllExhausted) == Result(kind, FALSE, "", Null, error, isAllExhausted)

(***************************************************************************)
(* A run.  pc is the await the run is suspended at:                        *)
(*   "idle"        not called yet                                          *)
(*   "awaitToken"  await operation(token), line 421                        *)
(*   "awaitAnon"   await operation(null), line 377 (inLoop false) or 403   *)
(*   "done"        returned                                                *)
(*   "threw"       left by an exception no catch block handles             *)
(* tokenCalls, anonCalls, selections, marked and step record what the run  *)
(* did: the number of its operation calls with and without a token, the    *)
(* number of its calls of getNextAvailableToken, the tokens it marked and  *)
(* its last step.                                                          *)
(***************************************************************************)
IdleRun ==
    [pc |-> "idle", provider |-> "gitee", allTokens |-> <<>>, allowAnonymous |-> FALSE,
     attempts |-> 0, token |-> Null, inLoop |-> FALSE, result |-> Pending,
     tokenCalls |-> 0, anonCalls |-> 0, selections |-> 0, marked |-> {}, step |-> "none",
     site |-> "runWithTokenRotation"]

(***************************************************************************)
(* What a caller observes of a call: the value a reader returned (flag of  *)
(* isTokenExhausted and isQuotaError, next of getNextAvailableToken, stats *)
(* of getTokenStats, parsed of parseTokens) or the exception raised        *)
(* (threw).  A mutator that completes returns nothing.                     *)
(***************************************************************************)
NoCall ==
    [op |-> "none", provider |-> "gitee", token |-> Null, tokens |-> <<>>,
     threw |-> FALSE, flag |-> FALSE, next |-> Null,
     stats |-> [total |-> 0, active |-> 0, exhausted |-> 0],
     error |-> Thrown("null", NoStatus, NoField, NoField, NoField),
     raw |-> RawNull, parsed |-> <<>>]

Call(op, provider, token, tokens) ==
    [NoCall EXCEPT !.op = op, !.provider = provider, !.token = token, !.tokens = tokens]

Raised(call) == [call EXCEPT !.threw = TRUE]

Init ==
    /\ today = 0
    /\ stored = Absent
    /\ runs = [r \in Runs |-> IdleRun]
    /\ last = NoCall

Return(run, result) == [run EXCEPT !.pc = "done", !.result = result]

\* an exception leaves the async function: its promise rejects
Throw(run) == [run EXCEPT !.pc = "threw"]

Invoke(run, token) ==
    [run EXCEPT !.pc = IF token = Null THEN "awaitAnon" ELSE "awaitToken",
                !.token = token,
                !.tokenCalls = IF token = Null THEN @ ELSE @ + 1,
                !.anonCalls = IF token = Null THEN @ + 1 ELSE @]

\* a loop that gives up one attempt early
RunLoop_CapEarly(run, item, now) ==
    IF run.attempts < MAX_RETRY_ATTEMPTS - 1
    THEN LET token == getNextAvailableToken(item, now, run.provider, run.allTokens)
             selected == [run EXCEPT !.selections = @ + 1, !.inLoop = TRUE]
         IN  IF Falsy(token)
             THEN IF run.allowAnonymous
                  THEN Invoke(selected, Null)
                  ELSE Return(selected,
                              Failure("allExhausted",
                                      "All API tokens exhausted. Quota will reset tomorrow.",
                                      TRUE))
             ELSE Invoke(selected, token)
    ELSE Return(run, Failure("maxRetries", "Maximum retry attempts reached", TRUE))

\* a loop whose test is attempts <= MAX_RETRY_ATTEMPTS
RunLoop_CapLate(run, item, now) ==
    IF run.attempts <= MAX_RETRY_ATTEMPTS
    THEN LET token == getNextAvailableToken(item, now, run.provider, run.allTokens)
             selected == [run EXCEPT !.selections = @ + 1, !.inLoop = TRUE]
         IN  IF Falsy(token)
             THEN IF run.allowAnonymous
                  THEN Invoke(selected, Null)
                  ELSE Return(selected,
                              Failure("allExhausted",
                                      "All API tokens exhausted. Quota will reset tomorrow.",
                                      TRUE))
             ELSE Invoke(selected, token)
    ELSE Return(run, Failure("maxRetries", "Maximum retry attempts reached", TRUE))

\* a loop that never falls back to an anonymous call
RunLoop_NoAnonymous(run, item, now) ==
    IF run.attempts < MAX_RETRY_ATTEMPTS
    THEN LET token == getNextAvailableToken(item, now, run.provider, run.allTokens)
             selected == [run EXCEPT !.selections = @ + 1, !.inLoop = TRUE]
         IN  IF Falsy(token)
             THEN Return(selected,
                         Failure("allExhausted",
                                 "All API tokens exhausted. Quota will reset tomorrow.",
                                 TRUE))
             ELSE Invoke(selected, token)
    ELSE Return(run, Failure("maxRetries", "Maximum retry attempts reached", TRUE))

\* the while loop from its test (line 396) to the next await or return
RunLoop(run, item, now) ==
    IF run.attempts < MAX_RETRY_ATTEMPTS
    THEN LET token == getNextAvailableToken(item, now, run.provider, run.allTokens)
             selected == [run EXCEPT !.selections = @ + 1, !.inLoop = TRUE]
         IN  IF Falsy(token)
             THEN IF run.allowAnonymous
                  THEN Invoke(selected, Null)
                  ELSE Return(selected,
                              Failure("allExhausted",
                                      "All API tokens exhausted. Quota will reset tomorrow.",
                                      TRUE))
             ELSE Invoke(selected, token)
    ELSE Return(run, Failure("maxRetries", "Maximum retry attempts reached", TRUE))

\* a start without the branch for the empty list
RunStart_NoEmptyCheck(run, item, now) == RunLoop(run, item, now)

\* runWithTokenRotation from its call to the first await or return
RunStart(run, item, now) ==
    IF Len(run.allTokens) = 0
    THEN IF run.allowAnonymous
         THEN Invoke(run, Null)
         ELSE Return(run, Failure("noTokens", "No API tokens configured", FALSE))
    ELSE RunLoop(run, item, now)

(***************************************************************************)
(* The call-site wrappers: generateImage, upscaleImage and optimizePrompt  *)
(* of the API client and generateImageWithRotation of FlowInput.  Each has *)
(* its own copy of the loop; site names the wrapper a run executes.  A     *)
(* wrapper reports no token and no all-exhausted tag.                      *)
(***************************************************************************)
Sites == {"generateImage", "upscaleImage", "optimizePrompt", "generateImageWithRotation"}

\* requiresAuth of PROVIDER_OPTIONS and needsAuth of LLM_PROVIDER_OPTIONS:
\* HuggingFace takes anonymous calls, Gitee AI does not
RequiresAuth(provider) == provider = "gitee"

\* the wrapper's test on the branch where no token is available
SiteTriesAnonymous(run) ==
    CASE run.site = "generateImage" -> ~RequiresAuth(run.provider)
      [] run.site = "upscaleImage" -> TRUE
      [] run.site = "optimizePrompt" -> FALSE
      [] run.site = "generateImageWithRotation" -> ~RequiresAuth(run.provider)

\* the wrapper's while loop from its test to the next await or return
SiteLoop(run, item, now) ==
    IF run.attempts < MAX_RETRY_ATTEMPTS
    THEN LET nextToken == getNextAvailableToken(item, now, run.provider, run.allTokens)
             selected == [run EXCEPT !.selections = @ + 1, !.inLoop = TRUE]
         IN  IF Falsy(nextToken)
             THEN IF SiteTriesAnonymous(run)
                  THEN Invoke(selected, Null)
                  ELSE Return(selected,
                              Failure("allExhausted",
                                      "All API tokens exhausted. Quota will reset tomorrow.",
                                      FALSE))
             ELSE Invoke(selected, nextToken)
    ELSE Return(run, Failure("maxRetries", "Maximum retry attempts reached", FALSE))

\* the wrapper from its call to the first await or return
SiteStart(run, item, now) ==
    CASE run.site = "generateImage" ->
           IF Len(run.allTokens) = 0 /\ RequiresAuth(run.provider)
           THEN Return(run, Failure("noTokens", "Please configure your token first", FALSE))
           ELSE IF Len(run.allTokens) = 0 THEN Invoke(run, Null)
           ELSE SiteLoop(run, item, now)
      [] run.site = "upscaleImage" ->
           IF Len(run.allTokens) = 0 THEN Invoke(run, Null)
           ELSE SiteLoop(run, item, now)
      [] run.site = "optimizePrompt" ->
           IF ~RequiresAuth(run.provider) THEN Invoke(run, Null)
           ELSE IF Len(run.allTokens) = 0
           THEN Return(run, Failure("noTokens", "Please configure your token first", FALSE))
           ELSE SiteLoop(run, item, now)
      [] run.site = "generateImageWithRotation" ->
           IF Len(run.allTokens) = 0
           THEN IF RequiresAuth(run.provider)
                THEN Return(run, Failure("noTokens", "No API Token", FALSE))
                ELSE Invoke(run, Null)
           ELSE SiteLoop(run, item, now)

\* err instanceof Error ? err.message : 'Network error'
SiteErrorText(e) == IF e.type = "error" THEN e.message ELSE "Network error"

(***************************************************************************)
(* The clock and the other callers of the tracker.                         *)
(***************************************************************************)
Tick ==
    /\ today < MaxDay
    /\ today' = today + 1
    /\ UNCHANGED <<stored, runs, last>>

MarkTokenExhausted(p, t) ==
    /\ IF TypeErrorRaised(stored, today)
       THEN /\ last' = Raised(Call("markTokenExhausted", p, t, <<>>))
            /\ UNCHANGED stored
       ELSE /\ stored' = markTokenExhausted(stored, today, p, t)
            /\ last' = NoCall
    /\ UNCHANGED <<today, runs>>

ResetProviderTokens(p) ==
    /\ IF TypeErrorRaised(stored, today)
       THEN /\ last' = Raised(Call("resetProviderTokens", p, Null, <<>>))
            /\ UNCHANGED stored
       ELSE /\ stored' = resetProviderTokens(stored, today, p)
            /\ last' = NoCall
    /\ UNCHANGED <<today, runs>>

ResetAllTokens ==
    /\ stored' = resetAllTokens(today)
    /\ last' = NoCall
    /\ UNCHANGED <<today, runs>>

(***************************************************************************)
(* The readers, called by the settings panel and the call-site wrappers.   *)
(* getTokenStatusStore returns the fresh store of a stale date without     *)
(* saving it, so a reader leaves the item as it found it.                  *)
(***************************************************************************)
\* a reader that saves the fresh store it computed for a stale or missing item
StoredAfterRead_SavesFresh(item, now) ==
    IF item.kind = "json" /\ item.date = getUTCDateString(now)
    THEN item
    ELSE saveTokenStatusStore(FreshStore(now))

\* the item after getTokenStatusStore returned: no setItem on any path
StoredAfterRead(item, now) == item

IsTokenExhausted(p, t) ==
    /\ stored' = StoredAfterRead(stored, today)
    /\ last' = IF TypeErrorRaised(stored, today)
               THEN Raised(Call("isTokenExhausted", p, t, <<>>))
               ELSE [Call("isTokenExhausted", p, t, <<>>)
                     EXCEPT !.flag = isTokenExhausted(stored, today, p, t)]
    /\ UNCHANGED <<today, runs>>

\* line 224 returns before the store is read
GetNextAvailableToken(p, tokens) ==
    /\ stored' = IF Len(tokens) = 0 THEN stored ELSE StoredAfterRead(stored, today)
    /\ last' = IF Len(tokens) # 0 /\ TypeErrorRaised(stored, today)
               THEN Raised(Call("getNextAvailableToken", p, Null, tokens))
               ELSE [Call("getNextAvailableToken", p, Null, tokens)
                     EXCEPT !.next = getNextAvailableToken(stored, today, p, tokens)]
    /\ UNCHANGED <<today, runs>>

GetTokenStats(p, tokens) ==
    /\ stored' = StoredAfterRead(stored, today)
    /\ last' = IF TypeErrorRaised(stored, today)
               THEN Raised(Call("getTokenStats", p, Null, tokens))
               ELSE [Call("getTokenStats", p, Null, tokens)
                     EXCEPT !.stats = getTokenStats(stored, today, p, tokens)]
    /\ UNCHANGED <<today, runs>>

\* a call of the classifier
IsQuotaError(e) ==
    /\ last' = [Call("isQuotaError", "gitee", Null, <<>>)
                EXCEPT !.error = e, !.flag = isQuotaError(e)]
    /\ UNCHANGED <<today, stored, runs>>

\* a call of the parser
ParseTokens(rawInput) ==
    /\ last' = [Call("parseTokens", "gitee", Null, <<>>)
                EXCEPT !.raw = rawInput, !.parsed = parseTokens(rawInput)]
    /\ UNCHANGED <<today, stored, runs>>

(***************************************************************************)
(* The turns of a run.                                                     *)
(***************************************************************************)
\* getNextAvailableToken (line 397) is called outside the try blocks
StartRun(r, p, tokens, anon) ==
    /\ runs[r].pc = "idle"
    /\ runs' = [runs EXCEPT ![r] =
                  LET called == [@ EXCEPT !.provider = p, !.allTokens = tokens,
                                          !.allowAnonymous = anon, !.step = "start"]
                  IN  IF Len(tokens) # 0 /\ TypeErrorRaised(stored, today)
                      THEN Throw(called)
                      ELSE [RunStart(called, stored, today) EXCEPT !.step = "start"]]
    /\ UNCHANGED <<today, stored, last>>

\* a success that forgets which token it used
TokenCallResolves_NoToken(r, d) ==
    /\ runs[r].pc = "awaitToken"
    /\ runs' = [runs EXCEPT ![r] =
                  [Return(@, Success(d, Null)) EXCEPT !.step = "resolved"]]
    /\ UNCHANGED <<today, stored, last>>

\* operation(token) resolves: line 422
TokenCallResolves(r, d) ==
    /\ runs[r].pc = "awaitToken"
    /\ runs' = [runs EXCEPT ![r] =
                  [Return(@, Success(d, @.token)) EXCEPT !.step = "resolved"]]
    /\ UNCHANGED <<today, stored, last>>

\* a quota branch that retries without marking the token
TokenCallRejectsQuota_NoMark(r, e) ==
    /\ runs[r].pc = "awaitToken"
    /\ isQuotaError(e)
    /\ runs' = [runs EXCEPT ![r] =
                  [RunLoop([@ EXCEPT !.attempts = @ + 1], stored, today)
                   EXCEPT !.step = "quota"]]
    /\ UNCHANGED <<today, stored, last>>

\* a quota branch that marks the token under a fixed provider
TokenCallRejectsQuota_FixedProvider(r, e) ==
    /\ runs[r].pc = "awaitToken"
    /\ isQuotaError(e)
    /\ stored' = markTokenExhausted(stored, today, "huggingface", runs[r].token)
    /\ runs' = [runs EXCEPT ![r] =
                  [RunLoop([@ EXCEPT !.attempts = @ + 1,
                                     !.marked = @ \cup {runs[r].token}],
                           stored', today)
                   EXCEPT !.step = "quota"]]
    /\ UNCHANGED <<today, last>>

\* a quota branch that forgets attempts++
TokenCallRejectsQuota_NoCount(r, e) ==
    /\ runs[r].pc = "awaitToken"
    /\ isQuotaError(e)
    /\ stored' = markTokenExhausted(stored, today, runs[r].provider, runs[r].token)
    /\ runs' = [runs EXCEPT ![r] =
                  [RunLoop([@ EXCEPT !.marked = @ \cup {runs[r].token}], stored', today)
                   EXCEPT !.step = "quota"]]
    /\ UNCHANGED <<today, last>>

\* operation(token) rejects with a quota error: lines 424-428, then the loop;
\* markTokenExhausted is called inside the catch block, where nothing
\* handles what it raises
TokenCallRejectsQuota(r, e) ==
    /\ runs[r].pc = "awaitToken"
    /\ isQuotaError(e)
    /\ IF TypeErrorRaised(stored, today)
       THEN /\ runs' = [runs EXCEPT ![r] = [Throw(@) EXCEPT !.step = "quota"]]
            /\ UNCHANGED stored
       ELSE /\ stored' = markTokenExhausted(stored, today, runs[r].provider, runs[r].token)
            /\ runs' = [runs EXCEPT ![r] =
                          [RunLoop([@ EXCEPT !.attempts = @ + 1,
                                             !.marked = @ \cup {runs[r].token}],
                                   stored', today)
                           EXCEPT !.step = "quota"]]
    /\ UNCHANGED <<today, last>>

\* a failure branch that marks the token whatever the error was
TokenCallRejectsOther_Marks(r, e) ==
    /\ runs[r].pc = "awaitToken"
    /\ ~isQuotaError(e)
    /\ stored' = markTokenExhausted(stored, today, runs[r].provider, runs[r].token)
    /\ runs' = [runs EXCEPT ![r] =
                  [Return(@, Failure("operation", ErrorText(e), FALSE))
                   EXCEPT !.step = "rejected"]]
    /\ UNCHANGED <<today, last>>

\* operation(token) rejects with any other error: lines 431-436
TokenCallRejectsOther(r, e) ==
    /\ runs[r].pc = "awaitToken"
    /\ ~isQuotaError(e)
    /\ runs' = [runs EXCEPT ![r] =
                  [Return(@, Failure("operation", ErrorText(e), FALSE))
                   EXCEPT !.step = "rejected"]]
    /\ UNCHANGED <<today, stored, last>>

\* operation(null) resolves: line 378 or 404
AnonCallResolves(r, d) ==
    /\ runs[r].pc = "awaitAnon"
    /\ runs' = [runs EXCEPT ![r] =
                  [Return(@, Success(d, Null)) EXCEPT !.step = "anonResolved"]]
    /\ UNCHANGED <<today, stored, last>>

\* a failed anonymous call that is tried once more
AnonCallRejects_Again(r, e) ==
    /\ runs[r].pc = "awaitAnon"
    /\ runs' = [runs EXCEPT ![r] =
                  [(IF @.anonCalls < 2
                    THEN Invoke(@, Null)
                    ELSE Return(@, Failure("operation", ErrorText(e), @.inLoop)))
                   EXCEPT !.step = "anonRejected"]]
    /\ UNCHANGED <<today, stored, last>>

\* operation(null) rejects: lines 379-384 or 405-410
AnonCallRejects(r, e) ==
    /\ runs[r].pc = "awaitAnon"
    /\ runs' = [runs EXCEPT ![r] =
                  [Return(@, Failure("operation", ErrorText(e), @.inLoop))
                   EXCEPT !.step = "anonRejected"]]
    /\ UNCHANGED <<today, stored, last>>

(***************************************************************************)
(* The turns of a call-site wrapper.  upscaleImage always works for the    *)
(* provider huggingface.                                                   *)
(***************************************************************************)
StartSite(r, site, p, tokens) ==
    /\ runs[r].pc = "idle"
    /\ site = "upscaleImage" => p = "huggingface"
    /\ runs' = [runs EXCEPT ![r] =
                  [SiteStart([@ EXCEPT !.site = site, !.provider = p, !.allTokens = tokens],
                             stored, today)
                   EXCEPT !.step = "start"]]
    /\ UNCHANGED <<today, stored, last>>

SiteTokenCallResolves(r, d) ==
    /\ runs[r].site \in Sites
    /\ runs[r].pc = "awaitToken"
    /\ runs' = [runs EXCEPT ![r] =
                  [Return(@, Success(d, Null)) EXCEPT !.step = "resolved"]]
    /\ UNCHANGED <<today, stored, last>>

SiteTokenCallRejectsQuota(r, e) ==
    /\ runs[r].site \in Sites
    /\ runs[r].pc = "awaitToken"
    /\ isQuotaError(e)
    /\ stored' = markTokenExhausted(stored, today, runs[r].provider, runs[r].token)
    /\ runs' = [runs EXCEPT ![r] =
                  [SiteLoop([@ EXCEPT !.attempts = @ + 1, !.marked = @ \cup {runs[r].token}],
                            stored', today)
                   EXCEPT !.step = "quota"]]
    /\ UNCHANGED <<today, last>>

SiteTokenCallRejectsOther(r, e) ==
    /\ runs[r].site \in Sites
    /\ runs[r].pc = "awaitToken"
    /\ ~isQuotaError(e)
    /\ runs' = [runs EXCEPT ![r] =
                  [Return(@, Failure("operation", SiteErrorText(e), FALSE))
                   EXCEPT !.step = "rejected"]]
    /\ UNCHANGED <<today, stored, last>>

SiteAnonCallResolves(r, d) ==
    /\ runs[r].site \in Sites
    /\ runs[r].pc = "awaitAnon"
    /\ runs' = [runs EXCEPT ![r] =
                  [Return(@, Success(d, Null)) EXCEPT !.step = "anonResolved"]]
    /\ UNCHANGED <<today, stored, last>>

SiteAnonCallRejects(r, e) ==
    /\ runs[r].site \in Sites
    /\ runs[r].pc = "awaitAnon"
    /\ runs' = [runs EXCEPT ![r] =
                  [Return(@, Failure("operation", SiteErrorText(e), FALSE))
                   EXCEPT !.step = "anonRejected"]]
    /\ UNCHANGED <<today, stored, last>>

(***************************************************************************)
(* Spec: one run against the clock and the other callers of the tracker    *)
(* (the call-site wrappers mark tokens themselves), on the callers' lists. *)
(***************************************************************************)
Next ==
    \/ Tick
    \/ \E p \in Providers, t \in EnvTokens : MarkTokenExhausted(p, t)
    \/ \E p \in Providers : ResetProviderTokens(p)
    \/ ResetAllTokens
    \/ \E p \in Providers, tokens \in ShortLists, anon \in BOOLEAN :
          StartRun(1, p, tokens, anon)
    \/ \E r \in Runs, d \in Data : TokenCallResolves(r, d)
    \/ \E r \in Runs, e \in RunErrors : TokenCallRejectsQuota(r, e)
    \/ \E r \in Runs, e \in RunErrors : TokenCallRejectsOther(r, e)
    \/ \E r \in Runs, d \in Data : AnonCallResolves(r, d)
    \/ \E r \in Runs, e \in RunErrors : AnonCallRejects(r, e)

Spec == Init /\ [][Next]_vars

(***************************************************************************)
(* SoloSpec: one run with nobody else writing the record and no midnight   *)
(* during the run, on any list, the long ones included.  It starts from    *)
(* any record the tracker operations can have left behind, on any day.     *)
(***************************************************************************)
\* exhausted maps over the callers' tokens: a provider has an entry only
\* while one of its tokens is flagged
ExhaustedMaps ==
    UNION {[D -> SUBSET EnvTokens \ {{}}] : D \in SUBSET Providers}

PersistedRecords == {Absent} \cup {Json(d, ex) : d \in Days, ex \in ExhaustedMaps}

SoloInit ==
    /\ today \in Days
    /\ stored \in {item \in PersistedRecords : item.date <= today}
    /\ runs = [r \in Runs |-> IdleRun]
    /\ last = NoCall

SoloNext ==
    \/ \E p \in Providers, tokens \in RunLists, anon \in BOOLEAN :
          StartRun(1, p, tokens, anon)
    \/ \E r \in Runs, d \in Data : TokenCallResolves(r, d)
    \/ \E r \in Runs, e \in RunErrors : TokenCallRejectsQuota(r, e)
    \/ \E r \in Runs, e \in RunErrors : TokenCallRejectsOther(r, e)
    \/ \E r \in Runs, d \in Data : AnonCallResolves(r, d)
    \/ \E r \in Runs, e \in RunErrors : AnonCallRejects(r, e)

SoloSpec == SoloInit /\ [][SoloNext]_vars

(***************************************************************************)
(* TrackerSpec: the tracker operations alone, called in any order on any   *)
(* day with a wider choice of tokens.  The readers isTokenExhausted,       *)
(* getNextAvailableToken and getTokenStats write nothing: they are the     *)
(* operators above, evaluated on the record and the date of each state.    *)
(***************************************************************************)
TrackerTokens == {TokenName[i] : i \in 1 .. MaxLen + 1}

TrackerLists == SeqsUpTo(TrackerTokens, MaxLen)

TrackerNext ==
    \/ Tick
    \/ \E p \in Providers, t \in TrackerTokens : MarkTokenExhausted(p, t)
    \/ \E p \in Providers : ResetProviderTokens(p)
    \/ ResetAllTokens

TrackerSpec == Init /\ [][TrackerNext]_vars

(***************************************************************************)
(* StorageSpec: every tracker operation, readers included, as a call of    *)
(* its own, starting from any content of the item: missing, unparseable,   *)
(* parseable without an exhausted map, or a record the tracker wrote.      *)
(***************************************************************************)
\* a string JSON.parse rejects
Text == [kind |-> "text", date |-> 0, hasMap |-> FALSE, exhausted |-> NoMap]

\* '{"date":"<d>"}': a parsed object without an exhausted map
WrongShape(d) == [kind |-> "json", date |-> d, hasMap |-> FALSE, exhausted |-> NoMap]

Malformed(item) == item.kind = "text" \/ (item.kind = "json" /\ ~item.hasMap)

StorageContents == PersistedRecords \cup {Text} \cup {WrongShape(d) : d \in Days}

StorageInit ==
    /\ today \in Days
    /\ stored \in {item \in StorageContents : item.date <= today}
    /\ runs = [r \in Runs |-> IdleRun]
    /\ last = NoCall

StorageNext ==
    \/ Tick
    \/ \E p \in Providers, t \in EnvTokens : MarkTokenExhausted(p, t)
    \/ \E p \in Providers : ResetProviderTokens(p)
    \/ ResetAllTokens
    \/ \E p \in Providers, t \in EnvTokens : IsTokenExhausted(p, t)
    \/ \E p \in Providers, tokens \in ShortLists : GetNextAvailableToken(p, tokens)
    \/ \E p \in Providers, tokens \in ShortLists : GetTokenStats(p, tokens)

StorageSpec == StorageInit /\ [][StorageNext]_vars

(***************************************************************************)
(* ClassifierSpec: isQuotaError called on every thrown value of the model: *)
(* a catch block holds the value in last.error and classifies it.          *)
(***************************************************************************)
ClassifierInit ==
    /\ today = 0
    /\ stored = Absent
    /\ runs = [r \in Runs |-> IdleRun]
    /\ last \in {[NoCall EXCEPT !.error = e] : e \in ThrownValues}

ClassifierNext == last.op = "none" /\ IsQuotaError(last.error)

ClassifierSpec == ClassifierInit /\ [][ClassifierNext]_vars

(***************************************************************************)
(* ParserSpec: parseTokens called on every raw input of the model: the     *)
(* settings hold the input in last.raw and parse it.                       *)
(***************************************************************************)
ParserInit ==
    /\ today = 0
    /\ stored = Absent
    /\ runs = [r \in Runs |-> IdleRun]
    /\ last \in {[NoCall EXCEPT !.raw = rawInput] : rawInput \in RawInputs}

ParserNext == last.op = "none" /\ ParseTokens(last.raw)

ParserSpec == ParserInit /\ [][ParserNext]_vars

(***************************************************************************)
(* ConcSpec: the runs of one provider and one token list, started at any   *)
(* time and interleaved at their awaits, within one UTC day and with no    *)
(* other caller of the tracker.                                            *)
(***************************************************************************)
\* every run started so far was given this provider, list and option
SameCall(p, tokens, anon) ==
    \A q \in Runs :
        runs[q].pc # "idle" =>
            /\ runs[q].provider = p
            /\ runs[q].allTokens = tokens
            /\ runs[q].allowAnonymous = anon

\* one result, one quota error and one other error are enough to tell the
\* outcomes of the calls apart
ConcData == {"img1"}

ConcErrors ==
    {Thrown("object", 429, NoField, NoField, NoField),
     Thrown("error", NoStatus, "AUTH_INVALID", "Invalid API key", NoField)}

\* no item, or the record of today an earlier quota failure left behind
ConcInit ==
    /\ today = 0
    /\ stored \in {Absent} \cup {markTokenExhausted(Absent, 0, p, t) :
                                   p \in Providers, t \in EnvTokens}
    /\ runs = [r \in Runs |-> IdleRun]
    /\ last = NoCall

ConcNext ==
    \/ \E r \in Runs, p \in Providers, tokens \in ShortLists, anon \in BOOLEAN :
          SameCall(p, tokens, anon) /\ StartRun(r, p, tokens, anon)
    \/ \E r \in Runs, d \in ConcData : TokenCallResolves(r, d)
    \/ \E r \in Runs, e \in ConcErrors : TokenCallRejectsQuota(r, e)
    \/ \E r \in Runs, e \in ConcErrors : TokenCallRejectsOther(r, e)
    \/ \E r \in Runs, d \in ConcData : AnonCallResolves(r, d)
    \/ \E r \in Runs, e \in ConcErrors : AnonCallRejects(r, e)

ConcSpec == ConcInit /\ [][ConcNext]_vars

(***************************************************************************)
(* SiteSpec: one call of a call-site wrapper with nobody else writing the  *)
(* record, on any list, the long ones included.                            *)
(***************************************************************************)
SiteNext ==
    \/ \E site \in Sites, p \in Providers, tokens \in RunLists :
          StartSite(1, site, p, tokens)
    \/ \E r \in Runs, d \in Data : SiteTokenCallResolves(r, d)
    \/ \E r \in Runs, e \in RunErrors : SiteTokenCallRejectsQuota(r, e)
    \/ \E r \in Runs, e \in RunErrors : SiteTokenCallRejectsOther(r, e)
    \/ \E r \in Runs, d \in Data : SiteAnonCallResolves(r, d)
    \/ \E r \in Runs, e \in RunErrors : SiteAnonCallRejects(r, e)

SiteSpec == SoloInit /\ [][SiteNext]_vars

(***************************************************************************)
(* FairSpec: Spec started from any content of the item, with every call of *)
(* the operation completing: while run r waits for its call, one of the    *)
(* five completions is enabled, whatever the other callers do.             *)
(***************************************************************************)
Completes(r) ==
    \/ \E d \in Data : TokenCallResolves(r, d)
    \/ \E e \in RunErrors : TokenCallRejectsQuota(r, e)
    \/ \E e \in RunErrors : TokenCallRejectsOther(r, e)
    \/ \E d \in Data : AnonCallResolves(r, d)
    \/ \E e \in RunErrors : AnonCallRejects(r, e)

FairSpec == StorageInit /\ [][Next]_vars /\ \A r \in Runs : WF_vars(Completes(r))

\* the records of Spec are among those SoloSpec starts from
TypeOK ==
    /\ today \in Days
    /\ stored \in PersistedRecords
    /\ stored.kind = "json" => stored.date <= today

(***************************************************************************)
(* Properties of the tracker.                                              *)
(***************************************************************************)
\* the positions of allTokens whose token is not flagged under provider
AvailablePositions(item, now, provider, allTokens) ==
    {i \in 1 .. Len(allTokens) : ~isTokenExhausted(item, now, provider, allTokens[i])}

\* the first token of allTokens that is not flagged under provider, if any
FirstAvailable(item, now, provider, allTokens) ==
    LET avail == AvailablePositions(item, now, provider, allTokens)
    IN  IF avail = {} THEN Null
        ELSE allTokens[CHOOSE i \in avail : \A j \in avail : i <= j]

Reads(item, now, q) ==
    [flags |-> [t \in TrackerTokens |-> isTokenExhausted(item, now, q, t)],
     next  |-> [tokens \in TrackerLists |-> getNextAvailableToken(item, now, q, tokens)],
     stats |-> [tokens \in TrackerLists |-> getTokenStats(item, now, q, tokens)]]

\* C2: in every reachable state, marking any token exhausted under a provider
\* p leaves what isTokenExhausted, getNextAvailableToken and getTokenStats
\* report about every other provider q unchanged.
C2_CrossProviderIsolation ==
    \A p \in Providers, t \in TrackerTokens :
        \A q \in Providers \ {p} :
            Reads(markTokenExhausted(stored, today, p, t), today, q) = Reads(stored, today, q)

\* a token is flagged under one provider and available under the other,
\* which has a different token flagged
C2_Witness ==
    \E p \in Providers, q \in Providers, t \in TrackerTokens, u \in TrackerTokens :
        /\ q # p
        /\ u # t
        /\ isTokenExhausted(stored, today, p, t)
        /\ ~isTokenExhausted(stored, today, q, t)
        /\ isTokenExhausted(stored, today, q, u)
        /\ getNextAvailableToken(stored, today, q, <<t, u>>) = t

\* the step is a call of one of the two reset operations
IsReset == ResetAllTokens \/ \E p \in Providers : ResetProviderTokens(p)

\* every reader reports every token of every provider available
AllAvailable(item, now) ==
    \A p \in Providers :
        /\ \A t \in TrackerTokens : ~isTokenExhausted(item, now, p, t)
        /\ \A tokens \in TrackerLists :
              /\ getNextAvailableToken(item, now, p, tokens)
                   = (IF tokens = <<>> THEN Null ELSE tokens[1])
              /\ getTokenStats(item, now, p, tokens)
                   = [total |-> Len(tokens), active |-> Len(tokens), exhausted |-> 0]

\* the readers report token t exhausted under provider p
ReportedExhausted(item, now, p, t) ==
    /\ isTokenExhausted(item, now, p, t)
    /\ \A tokens \in TrackerLists :
          /\ getNextAvailableToken(item, now, p, tokens) # t
          /\ t \in Range(tokens) => getTokenStats(item, now, p, tokens).exhausted >= 1

\* C3 (daily reset): whenever the persisted record carries a date other than
\* today, every reader reports every token of every provider available ...
C3_StaleRecordReadsEmpty ==
    (stored.kind = "json" /\ stored.date # today) => AllAvailable(stored, today)

\* ... and across every step that neither changes the date nor is a reset, a
\* token reported exhausted stays reported exhausted.
C3_SameDayPersists ==
    (today' = today /\ ~IsReset) =>
        \A p \in Providers, t \in TrackerTokens :
            isTokenExhausted(stored, today, p, t) => ReportedExhausted(stored', today', p, t)

QuotaStep(r) == runs[r].pc = "awaitToken" /\ runs'[r] # runs[r] /\ runs'[r].step = "quota"

OtherStep(r) == runs[r].pc = "awaitToken" /\ runs'[r] # runs[r] /\ runs'[r].step = "rejected"

ResolvedStep(r) == runs[r].pc = "awaitToken" /\ runs'[r] # runs[r] /\ runs'[r].step = "resolved"

\* the numbers of operation calls and of selections of run r do not change
NoCallNoSelection(r) ==
    /\ runs'[r].tokenCalls = runs[r].tokenCalls
    /\ runs'[r].anonCalls = runs[r].anonCalls
    /\ runs'[r].selections = runs[r].selections

\* the step persists a record dated today in which (p, t) is flagged, and the
\* readers see exactly one more flag than before: (p, t)
MarksExactly(p, t) ==
    /\ stored'.kind = "json"
    /\ stored'.date = today'
    /\ p \in DOMAIN stored'.exhausted
    /\ t \in stored'.exhausted[p]
    /\ \A q \in Providers, u \in Range(TokenName) :
          isTokenExhausted(stored', today', q, u)
            <=> (isTokenExhausted(stored, today, q, u) \/ (q = p /\ u = t))

\* C4 as claimed: on a quota failure of the call with token t the run marks
\* exactly (provider, t) in the persisted record, counts one more attempt and
\* selects again instead of returning.
C4_QuotaStepAlwaysSelectsAgain ==
    [][\A r \in Runs :
          QuotaStep(r) =>
              /\ MarksExactly(runs[r].provider, runs[r].token)
              /\ runs'[r].attempts = runs[r].attempts + 1
              /\ runs'[r].selections = runs[r].selections + 1
              /\ runs'[r].result.kind # "maxRetries"]_vars

\* C4 (amended): on a quota failure of the call with token t the run marks
\* exactly (provider, t) in the persisted record and counts one more attempt;
\* it then selects again, unless that was its 10th attempt, in which case it
\* returns the 'Maximum retry attempts reached' failure without selecting.
C4_QuotaStep ==
    [][\A r \in Runs :
          QuotaStep(r) =>
              /\ MarksExactly(runs[r].provider, runs[r].token)
              /\ runs'[r].attempts = runs[r].attempts + 1
              /\ IF runs'[r].attempts < MAX_RETRY_ATTEMPTS
                 THEN /\ runs'[r].selections = runs[r].selections + 1
                      /\ runs'[r].result.kind \in {"pending", "allExhausted"}
                 ELSE /\ runs'[r].selections = runs[r].selections
                      /\ runs'[r].pc = "done"
                      /\ runs'[r].result
                           = Failure("maxRetries", "Maximum retry attempts reached", TRUE)]_vars

\* after a quota failure the run is calling the operation with its next token
C4_Witness ==
    \E r \in Runs :
        /\ runs[r].step = "quota"
        /\ runs[r].pc = "awaitToken"
        /\ runs[r].attempts = 1
        /\ runs[r].marked # {}
        /\ runs[r].token \notin runs[r].marked
        /\ \A t \in runs[r].marked : isTokenExhausted(stored, today, runs[r].provider, t)

\* C5: when the call with a token fails with an error that is no quota error,
\* the run returns a failure at once (not tagged all-exhausted), makes no
\* further call or selection, and leaves the persisted record as it was; a
\* run that has returned never acts again.
C5_NonQuotaFailure ==
    [][\A r \in Runs :
          /\ OtherStep(r) =>
                /\ runs'[r].pc = "done"
                /\ ~runs'[r].result.success
                /\ runs'[r].result.kind = "operation"
                /\ ~runs'[r].result.isAllExhausted
                /\ NoCallNoSelection(r)
                /\ runs'[r].marked = runs[r].marked
                /\ stored' = stored
          /\ runs[r].pc = "done" => runs'[r] = runs[r]]_vars

\* a run returned the operation's failure on its first token, which is still
\* available while the list has a second token that was never tried
C5_Witness ==
    \E r \in Runs :
        /\ runs[r].step = "rejected"
        /\ runs[r].pc = "done"
        /\ runs[r].tokenCalls = 1
        /\ runs[r].anonCalls = 0
        /\ Len(runs[r].allTokens) = 2
        /\ runs[r].allTokens[1] # runs[r].allTokens[2]
        /\ ~isTokenExhausted(stored, today, runs[r].provider, runs[r].token)

\* the step of run r selected inside the loop and found no token available
NoTokenFound(r) ==
    /\ runs'[r].selections = runs[r].selections + 1
    /\ getNextAvailableToken(stored', today', runs'[r].provider, runs'[r].allTokens) = Null

\* C6: whenever the selection inside the loop finds no available token, a run
\* that allows anonymous access calls the operation once with no token and
\* returns its outcome (success with tokenUsed = null, or a failure tagged
\* isAllExhausted); a run that does not returns the 'All API tokens
\* exhausted. Quota will reset tomorrow.' failure without calling the
\* operation.
C6_NoTokenAvailable ==
    [][\A r \in Runs :
          /\ NoTokenFound(r) =>
                IF runs'[r].allowAnonymous
                THEN /\ runs'[r].pc = "awaitAnon"
                     /\ runs'[r].anonCalls = runs[r].anonCalls + 1
                     /\ runs'[r].anonCalls = 1
                     /\ runs'[r].tokenCalls = runs[r].tokenCalls
                ELSE /\ runs'[r].pc = "done"
                     /\ runs'[r].result
                          = Failure("allExhausted",
                                    "All API tokens exhausted. Quota will reset tomorrow.", TRUE)
                     /\ runs'[r].tokenCalls = runs[r].tokenCalls
                     /\ runs'[r].anonCalls = runs[r].anonCalls
          /\ (runs[r].pc = "awaitAnon" /\ runs[r].inLoop /\ runs'[r] # runs[r]) =>
                /\ runs'[r].pc = "done"
                /\ NoCallNoSelection(r)
                /\ stored' = stored
                /\ \/ \E d \in Data : runs'[r].result = Success(d, Null)
                   \/ /\ ~runs'[r].result.success
                      /\ runs'[r].result.isAllExhausted
                      /\ runs'[r].result.kind = "operation"]_vars

\* a run that allows anonymous access found every token of its list flagged
\* and returned the failure of its one anonymous call
C6_Witness ==
    \E r \in Runs :
        /\ runs[r].step = "anonRejected"
        /\ runs[r].inLoop
        /\ runs[r].allowAnonymous
        /\ runs[r].anonCalls = 1
        /\ runs[r].tokenCalls >= 1
        /\ runs[r].result.isAllExhausted

\* every token of the run's list failed with a quota error during the run
AllFailedWithQuota(run) ==
    /\ run.pc = "done"
    /\ run.allTokens # <<>>
    /\ run.marked = Range(run.allTokens)

\* the run ended in the all-exhausted handling
AllExhaustedHandling(run) ==
    IF run.allowAnonymous
    THEN /\ run.anonCalls = 1
         /\ run.step \in {"anonResolved", "anonRejected"}
         /\ run.result.success => run.result.tokenUsed = Null
         /\ ~run.result.success => (run.result.isAllExhausted /\ run.result.kind = "operation")
    ELSE run.result = Failure("allExhausted",
                              "All API tokens exhausted. Quota will reset tomorrow.", TRUE)

\* C7 as claimed: for a list of any length, a run in which every token of the
\* list failed with a quota error (nobody else writing, no date change) ends
\* in the all-exhausted handling.
C7_AllExhaustedAnyLength ==
    \A r \in Runs : AllFailedWithQuota(runs[r]) => AllExhaustedHandling(runs[r])

\* C7 (amended): for a list of fewer than 10 distinct tokens, a run in which
\* every token of the list failed with a quota error (nobody else writing, no
\* date change) ends in the all-exhausted handling: one anonymous call when
\* anonymous access is allowed, the 'all tokens exhausted' failure otherwise.
C7_AllExhausted ==
    \A r \in Runs :
        (AllFailedWithQuota(runs[r])
           /\ Cardinality(Range(runs[r].allTokens)) < MAX_RETRY_ATTEMPTS)
          => AllExhaustedHandling(runs[r])

\* a run over nine distinct tokens saw all nine fail with a quota error and
\* returned the 'all tokens exhausted' failure
C7_Witness ==
    \E r \in Runs :
        /\ AllFailedWithQuota(runs[r])
        /\ Cardinality(Range(runs[r].allTokens)) = MAX_RETRY_ATTEMPTS - 1
        /\ runs[r].attempts = MAX_RETRY_ATTEMPTS - 1
        /\ ~runs[r].allowAnonymous
        /\ runs[r].result.kind = "allExhausted"

\* C8: a run calls the operation with a token at most 10 times, whatever the
\* clock and the other writers of the record do in between, and a run whose
\* 10 calls each failed with a quota error has returned the 'Maximum retry
\* attempts reached' failure.
C8_RetryCap ==
    \A r \in Runs :
        /\ runs[r].tokenCalls <= MAX_RETRY_ATTEMPTS
        /\ runs[r].attempts <= runs[r].tokenCalls
        /\ runs[r].attempts = MAX_RETRY_ATTEMPTS =>
              /\ runs[r].pc = "done"
              /\ runs[r].result = Failure("maxRetries", "Maximum retry attempts reached", TRUE)

\* a run made 10 calls with a token, all failed with a quota error
C8_Witness ==
    \E r \in Runs :
        /\ runs[r].tokenCalls = MAX_RETRY_ATTEMPTS
        /\ runs[r].attempts = MAX_RETRY_ATTEMPTS
        /\ runs[r].result.kind = "maxRetries"

\* C9: when the call with token t succeeds, the run returns success at once
\* with the operation's result as data and tokenUsed = t, makes no further
\* call or selection, and writes nothing to the persisted record.
C9_Success ==
    [][\A r \in Runs :
          /\ ResolvedStep(r) =>
                /\ runs'[r].pc = "done"
                /\ runs'[r].result.success
                /\ runs'[r].result.kind = "success"
                /\ runs'[r].result.tokenUsed = runs[r].token
                /\ runs'[r].result.tokenUsed # Null
                /\ runs'[r].result.data \in Data
                /\ NoCallNoSelection(r)
                /\ runs'[r].marked = runs[r].marked
                /\ stored' = stored
          /\ \A d \in Data : TokenCallResolves(r, d) => runs'[r].result.data = d]_vars

\* a run succeeded with the second token of its list after the first failed
C9_Witness ==
    \E r \in Runs :
        /\ runs[r].step = "resolved"
        /\ runs[r].result.success
        /\ Len(runs[r].allTokens) = 2
        /\ runs[r].result.tokenUsed = runs[r].allTokens[2]
        /\ runs[r].marked = {runs[r].allTokens[1]}
        /\ ~isTokenExhausted(stored, today, runs[r].provider, runs[r].result.tokenUsed)

\* C10: a run given the empty list calls the operation once with no token and
\* returns its result, or its failure with isAllExhausted = false, when
\* anonymous access is allowed; otherwise it returns the 'No API tokens
\* configured' failure without calling the operation.  Either way it never
\* selects a token, marks nothing and leaves the persisted record alone.
C10_EmptyListState ==
    \A r \in Runs :
        (runs[r].pc # "idle" /\ runs[r].allTokens = <<>>) =>
            /\ runs[r].selections = 0
            /\ runs[r].tokenCalls = 0
            /\ runs[r].marked = {}
            /\ IF runs[r].allowAnonymous
               THEN /\ runs[r].anonCalls = 1
                    /\ runs[r].pc \in {"awaitAnon", "done"}
                    /\ runs[r].pc = "done" =>
                          \/ \E d \in Data : runs[r].result = Success(d, Null)
                          \/ /\ ~runs[r].result.success
                             /\ ~runs[r].result.isAllExhausted
                             /\ runs[r].result.kind = "operation"
               ELSE /\ runs[r].anonCalls = 0
                    /\ runs[r].pc = "done"
                    /\ runs[r].result = Failure("noTokens", "No API tokens configured", FALSE)

C10_EmptyListStep ==
    \A r \in Runs :
        (runs'[r] # runs[r] /\ runs'[r].allTokens = <<>>) => stored' = stored

C10_EmptyList == [](C10_EmptyListState) /\ [][C10_EmptyListStep]_vars

\* a run given the empty list returned the failure of its anonymous call while
\* the record holds flags
C10_Witness ==
    \E r \in Runs :
        /\ runs[r].allTokens = <<>>
        /\ runs[r].step = "anonRejected"
        /\ runs[r].anonCalls = 1
        /\ ~runs[r].result.isAllExhausted
        /\ stored.kind = "json"
        /\ \E p \in DOMAIN stored.exhausted : stored.exhausted[p] # {}

(***************************************************************************)
(* Properties of the tracker, continued.                                   *)
(***************************************************************************)
\* the number of positions i of the list with isTokenExhausted(p, tokens[i])
FlaggedPositions(item, now, p, tokens) ==
    Len(SelectSeq(tokens, LAMBDA t : isTokenExhausted(item, now, p, t)))

C12_MarkIdempotent ==
    \A p \in Providers, t \in TrackerTokens :
        LET once == markTokenExhausted(stored, today, p, t)
            twice == markTokenExhausted(once, today, p, t)
        IN  /\ twice = once
            /\ \A q \in Providers, tokens \in TrackerLists :
                   /\ getNextAvailableToken(twice, today, q, tokens)
                        = getNextAvailableToken(once, today, q, tokens)
                   /\ getTokenStats(twice, today, q, tokens)
                        = getTokenStats(once, today, q, tokens)

\* a record of today in which marking a flagged token again changes nothing,
\* while the provider holds another flag and the other provider one too
C12_Witness ==
    \E p \in Providers, t \in TrackerTokens :
        /\ stored.kind = "json" /\ stored.date = today
        /\ isTokenExhausted(stored, today, p, t)
        /\ markTokenExhausted(stored, today, p, t) = stored
        /\ ExhaustedMap(stored, p) # {t}
        /\ \E q \in Providers : q # p /\ ExhaustedMap(stored, q) # {}

ReaderOps == {"isTokenExhausted", "getNextAvailableToken", "getTokenStats"}

\* a step in which a reader returned or raised: the mutators leave
\* last.op outside ReaderOps, the clock changes today
ReaderStep == last'.op \in ReaderOps /\ today' = today

\* C13: the readers isTokenExhausted, getNextAvailableToken and
\* getTokenStats never change the persisted item, not even when they see a
\* stale date; neither does the change of date itself, so that after a date
\* change and any number of reads the item still holds the old date and
\* the old flags until the next mutating call.
C13_ReadsDoNotWrite ==
    [][(ReaderStep \/ today' # today) => stored' = stored]_vars

\* a reader has just reported nothing exhausted of a list whose token the
\* item, still dated an earlier day, flags under that provider
C13_Witness ==
    /\ stored.kind = "json" /\ stored.hasMap /\ stored.date < today
    /\ last.op = "getTokenStats" /\ ~last.threw
    /\ last.stats.exhausted = 0
    /\ \E i \in 1 .. Len(last.tokens) :
           last.tokens[i] \in ExhaustedMap(stored, last.provider)

\* C14: resetProviderTokens(P) clears every flag under P and, when the
\* item is dated today, leaves the flags of every other provider exactly
\* as they were.
C14_ProviderReset ==
    \A p \in Providers :
        LET after == resetProviderTokens(stored, today, p)
        IN  /\ \A t \in TrackerTokens : ~isTokenExhausted(after, today, p, t)
            /\ (stored.kind = "json" /\ stored.date = today) =>
                   \A q \in Providers \ {p} :
                       /\ ExhaustedMap(getTokenStatusStore(after, today), q)
                            = ExhaustedMap(getTokenStatusStore(stored, today), q)
                       /\ \A t \in TrackerTokens :
                              isTokenExhausted(after, today, q, t)
                                = isTokenExhausted(stored, today, q, t)

\* an item of today that flags tokens under both providers, the flags of
\* one being what its reset removes and those of the other what it keeps
C14_Witness ==
    /\ stored.kind = "json" /\ stored.date = today
    /\ \A p \in Providers : ExhaustedMap(stored, p) # {}
    /\ \E p \in Providers :
           LET after == resetProviderTokens(stored, today, p)
           IN  /\ after # stored
               /\ DOMAIN after.exhausted = Providers \ {p}

\* the item is an empty exhausted map dated the given day, and every
\* provider's statistics count nothing exhausted on any list
EmptyOfDay(item, now) ==
    /\ item.kind = "json" /\ item.hasMap
    /\ item.date = getUTCDateString(now)
    /\ item.exhausted = NoMap
    /\ ~TypeErrorRaised(item, now)
    /\ \A p \in Providers, tokens \in ShortLists :
           getTokenStats(item, now, p, tokens).exhausted = 0

AsIfAbsent ==
    /\ \A p \in Providers, t \in EnvTokens :
          /\ IsTokenExhausted(p, t) =>
                 last'.flag = isTokenExhausted(Absent, today, p, t)
          /\ MarkTokenExhausted(p, t) =>
                 stored' = markTokenExhausted(Absent, today, p, t)
    /\ \A p \in Providers, tokens \in ShortLists :
          /\ GetNextAvailableToken(p, tokens) =>
                 last'.next = getNextAvailableToken(Absent, today, p, tokens)
          /\ GetTokenStats(p, tokens) =>
                 last'.stats = getTokenStats(Absent, today, p, tokens)
    /\ \A p \in Providers :
          ResetProviderTokens(p) => stored' = resetProviderTokens(Absent, today, p)

\* C16: whatever the item holds (nothing, unparseable text, or parseable
\* JSON of the wrong shape such as a record with today's date and no
\* exhaustion map), isTokenExhausted, getNextAvailableToken, getTokenStats,
\* markTokenExhausted and resetProviderTokens complete without raising and
\* behave as if the store were empty and dated today.
C16_MalformedAsAbsent ==
    /\ [] ~last.threw
    /\ [][(Malformed(stored) \/ stored.kind = "absent") => AsIfAbsent]_vars

(***************************************************************************)
(* The rotation flow of the callers: select the next available token and, *)
(* on a quota failure, mark it and select again.  Fallback is the flow in  *)
(* which every selected token fails: rounds calls of                       *)
(* getNextAvailableToken, each result marked unless it is null.            *)
(***************************************************************************)
RECURSIVE Fallback(_, _, _, _, _)
Fallback(item, now, p, tokens, rounds) ==
    IF rounds = 0 THEN [item |-> item, selected |-> <<>>]
    ELSE LET token == getNextAvailableToken(item, now, p, tokens)
             after == IF token = Null THEN item
                      ELSE markTokenExhausted(item, now, p, token)
             rest == Fallback(after, now, p, tokens, rounds - 1)
         IN  [item |-> rest.item, selected |-> <<token>> \o rest.selected]

\* the lists of distinct tokens
DistinctLists ==
    {tokens \in TrackerLists : Cardinality(Range(tokens)) = Len(tokens)}

QuotaMessages ==
    {"429", "Rate limit exceeded", "Too many requests", "QUOTA exceeded", "429 Too Many Requests"}

MatchesQuota(e) ==
    \/ e.status = 429
    \/ e.code \in {"RATE_LIMITED", "QUOTA_EXCEEDED"}
    \/ e.message \in QuotaMessages
    \/ e.error \in QuotaMessages

\* C18: isQuotaError(e) is true exactly when e is non-null and its status
\* is 429, or its code is 'RATE_LIMITED' or 'QUOTA_EXCEEDED', or its
\* message or error string, lower-cased, contains '429', 'rate limit',
\* 'quota' or 'too many requests'; it is false for null and undefined and
\* for every error matching none of these.
C18_QuotaClassification ==
    last.op = "isQuotaError" =>
        (last.flag <=> (last.error.type # "null" /\ MatchesQuota(last.error)))

\* an object with a failing status, code and message, classified as a
\* quota error by its nested error text alone
C18_Witness ==
    /\ last.op = "isQuotaError"
    /\ last.flag
    /\ last.error = Thrown("object", 401, "AUTH_INVALID", "Invalid API key",
                           "429 Too Many Requests")

(***************************************************************************)
(* Properties of the parser.  The pieces of a string are told by position: *)
(* a piece lies between two neighbouring cuts, the cuts being the ASCII    *)
(* commas and the two ends of the string.                                  *)
(***************************************************************************)
Cuts(cs) == {0, Len(cs) + 1} \cup {i \in 1 .. Len(cs) : cs[i] = ","}

\* the positions of a piece that hold no whitespace
Inked(cs, a, b) == {i \in a + 1 .. b - 1 : cs[i] \notin WhiteSpace}

\* the pieces that are not empty once trimmed, as pairs of neighbouring cuts
Pieces(cs) ==
    {ab \in Cuts(cs) \X Cuts(cs) :
        /\ ab[1] < ab[2]
        /\ \A c \in Cuts(cs) : ~(ab[1] < c /\ c < ab[2])
        /\ Inked(cs, ab[1], ab[2]) # {}}

Least(S) == CHOOSE x \in S : \A y \in S : x <= y

Greatest(S) == CHOOSE x \in S : \A y \in S : y <= x

\* the k-th piece, trimmed
Piece(cs, k) ==
    LET ab == CHOOSE x \in Pieces(cs) :
                  Cardinality({y \in Pieces(cs) : y[1] < x[1]}) = k - 1
        ink == Inked(cs, ab[1], ab[2])
    IN  SubSeq(cs, Least(ink), Greatest(ink))

Count(cs, c) == Cardinality({i \in 1 .. Len(cs) : cs[i] = c})

RECURSIVE Sum(_)
Sum(ns) == IF ns = <<>> THEN 0 ELSE Head(ns) + Sum(Tail(ns))

\* C19: parseTokens(raw) returns, in input order, the pieces of raw between
\* ASCII commas, each trimmed of surrounding whitespace, the empty ones
\* removed, and the empty list for null, undefined and the empty string;
\* no element is empty or contains an ASCII comma, and a full-width comma
\* never splits a token (every one of them is kept inside an element).
C19_ParseTokens ==
    last.op = "parseTokens" =>
        LET cs == last.raw.chars
            out == last.parsed
        IN  /\ (last.raw.null \/ cs = <<>>) => out = <<>>
            /\ Len(out) = Cardinality(Pieces(cs))
            /\ \A k \in 1 .. Len(out) :
                   /\ out[k] = Piece(cs, k)
                   /\ out[k] # <<>>
                   /\ Count(out[k], ",") = 0
            /\ Sum([k \in 1 .. Len(out) |-> Count(out[k], FullWidthComma)])
                 = Count(cs, FullWidthComma)

\* 'b<U+FF0C>, ' parsed into the one token 'b<U+FF0C>': no split at the
\* full-width comma, and the blank piece after the ASCII comma removed
C19_Witness ==
    /\ last.op = "parseTokens"
    /\ last.raw = RawString(<<"b", FullWidthComma, ",", " ">>)
    /\ last.parsed = << <<"b", FullWidthComma>> >>

(***************************************************************************)
(* Properties of concurrent runs.                                          *)
(***************************************************************************)
\* C20: two runs of the same provider and list, interleaved at their
\* awaits, may be calling the operation with the same token at once; when
\* both calls fail with a quota error, the second mark leaves the item as
\* the first mark left it, no flag of another token or provider is lost,
\* each quota failure costs its run exactly one attempt (a run never pays
\* twice for a token) and changes nothing of the other runs.
C20_ConcurrentRuns ==
    /\ [] \A r \in Runs : runs[r].attempts = Cardinality(runs[r].marked)
    /\ [][\A r \in Runs :
             QuotaStep(r) =>
                 /\ MarksExactly(runs[r].provider, runs[r].token)
                 /\ isTokenExhausted(stored, today, runs[r].provider, runs[r].token)
                      => stored' = stored
                 /\ runs'[r].attempts = runs[r].attempts + 1
                 /\ runs'[r].marked = runs[r].marked \cup {runs[r].token}
                 /\ \A q \in Runs \ {r} : runs'[q] = runs[q]]_vars

\* two runs have each made one call with the same token and failed on it
\* with a quota error, one of them while the token was flagged already:
\* each has counted one attempt and the item, which flags a token of the
\* other provider too, is what a single mark of the token gives
C20_Witness ==
    \E r \in Runs, q \in Runs, t \in EnvTokens :
        /\ r # q
        /\ runs[r].marked = {t} /\ runs[q].marked = {t}
        /\ runs[r].attempts = 1 /\ runs[q].attempts = 1
        /\ runs[r].selections + runs[q].selections = 4
        /\ runs[r].step = "quota" /\ runs[q].step = "quota"
        /\ markTokenExhausted(stored, today, runs[r].provider, t) = stored
        /\ \E p \in Providers : p # runs[r].provider /\ ExhaustedMap(stored, p) # {}

(***************************************************************************)
(* Properties of the call-site wrappers.  View is what a run did so far:   *)
(* where it waits, with which token, its attempts, calls, selections and   *)
(* marks, and the kind of its outcome.                                     *)
(***************************************************************************)
View(run) ==
    [pc |-> run.pc, token |-> run.token, attempts |-> run.attempts,
     tokenCalls |-> run.tokenCalls, anonCalls |-> run.anonCalls,
     selections |-> run.selections, marked |-> run.marked, kind |-> run.result.kind]

\* the wrapper's run as a run of runWithTokenRotation that allows anonymous
\* access exactly when the provider does not require authentication
AsRotation(run) == [run EXCEPT !.allowAnonymous = ~RequiresAuth(run.provider)]

\* the step of run r is the step runWithTokenRotation takes from the same
\* state on the same outcome
FollowsRotation(r) ==
    CASE runs'[r].step = "start" ->
           /\ stored' = stored
           /\ View(runs'[r])
                = View(RunStart(AsRotation([runs[r] EXCEPT
                                              !.provider = runs'[r].provider,
                                              !.allTokens = runs'[r].allTokens]),
                                stored, today))
      [] runs'[r].step = "quota" ->
           /\ stored' = markTokenExhausted(stored, today, runs[r].provider, runs[r].token)
           /\ View(runs'[r])
                = View(RunLoop(AsRotation([runs[r] EXCEPT
                                             !.attempts = @ + 1,
                                             !.marked = @ \cup {runs[r].token}]),
                               stored', today))
      [] runs'[r].step \in {"resolved", "anonResolved"} ->
           /\ stored' = stored
           /\ View(runs'[r]) = View(Return(runs[r], Success("", Null)))
      [] runs'[r].step \in {"rejected", "anonRejected"} ->
           /\ stored' = stored
           /\ View(runs'[r]) = View(Return(runs[r], Failure("operation", "", FALSE)))

\* C21: generateImage, upscaleImage, optimizePrompt and FlowInput's
\* generateImageWithRotation follow the orchestration of
\* runWithTokenRotation: from the same provider, list, record and outcomes
\* each makes the same selections, operation calls and marks and ends in
\* the same kind of outcome, anonymous access being allowed exactly when
\* the provider does not require authentication.
C21_WrappersFollowRotation ==
    [][\A r \in Runs : runs'[r] # runs[r] => FollowsRotation(r)]_vars

\* the wrappers other than optimizePrompt on a provider without
\* authentication do follow it
C21_WrappersFollowRotationElsewhere ==
    [][\A r \in Runs :
          (/\ runs'[r] # runs[r]
           /\ ~(runs'[r].site = "optimizePrompt" /\ ~RequiresAuth(runs'[r].provider)))
             => FollowsRotation(r)]_vars

(***************************************************************************)
(* Termination.                                                            *)
(***************************************************************************)
\* C22: every run of runWithTokenRotation returns a result: it never ends
\* in an exception, and once called it eventually returns, provided each
\* call of the operation completes, whatever the other callers, the resets
\* and the clock do and however the failures are classified.
C22_Termination ==
    /\ [] \A r \in Runs : runs[r].pc # "threw"
    /\ \A r \in Runs : (runs[r].pc # "idle") ~> (runs[r].pc = "done")

(***************************************************************************)
(* RawSpec: the tracker called with any strings as tokens, the empty       *)
(* string and the name of a property of Object.prototype among them.       *)
(***************************************************************************)
RawTokens == {TokenName[1], "", "constructor"}

RawLists == SeqsUpTo(RawTokens, MaxLen)

RawNext ==
    \/ Tick
    \/ \E p \in Providers, t \in RawTokens : MarkTokenExhausted(p, t)
    \/ \E p \in Providers : ResetProviderTokens(p)
    \/ ResetAllTokens

RawSpec == Init /\ [][RawNext]_vars

\* C23: in every state the tracker's operations reach, for every provider and
\* every token list, getNextAvailableToken returns the first token of the list
\* for which isTokenExhausted is false (null when there is none), and
\* getTokenStats counts as exhausted exactly the positions whose token
\* isTokenExhausted reports exhausted.
C23_SelectionAgreesWithQuery ==
    \A p \in Providers, tokens \in RawLists :
        /\ getNextAvailableToken(stored, today, p, tokens)
             = FirstAvailable(stored, today, p, tokens)
        /\ getTokenStats(stored, today, p, tokens).exhausted
             = FlaggedPositions(stored, today, p, tokens)

\* C24: in every state, for every provider and every list of strings, the
\* empty string included, getNextAvailableToken returns null exactly when
\* getTokenStats reports active = 0.
C24_NullIffNoneActive ==
    \A p \in Providers, tokens \in RawLists :
        getNextAvailableToken(stored, today, p, tokens) = Null
          <=> getTokenStats(stored, today, p, tokens).active = 0

\* C25: every write of the record stores the date current at the write; a
\* markTokenExhausted(p, t) that finds a record of another date persists a
\* record whose only flag is (p, t), and a resetProviderTokens(p) that finds
\* one persists a record without any flag.
C25_WritesDatedToday ==
    [][/\ ((\E p \in Providers, t \in TrackerTokens : MarkTokenExhausted(p, t))
            \/ (\E p \in Providers : ResetProviderTokens(p))
            \/ ResetAllTokens
            \/ stored' # stored)
          => (stored'.kind = "json" /\ stored'.date = today /\ today' = today)
       /\ \A p \in Providers, t \in TrackerTokens :
             (MarkTokenExhausted(p, t) /\ stored.date # today) =>
                \A q \in Providers :
                    ExhaustedMap(stored', q) = IF q = p THEN {t} ELSE {}
       /\ \A p \in Providers :
             (ResetProviderTokens(p) /\ stored.date # today) =>
                \A q \in Providers : ExhaustedMap(stored', q) = {}]_vars

\* after a date change the record was written again: it carries the new date
\* and a single flag
C25_Witness ==
    /\ today > 0
    /\ stored.kind = "json"
    /\ stored.date = today
    /\ \E p \in Providers :
          /\ Cardinality(ExhaustedMap(stored, p)) = 1
          /\ \A q \in Providers \ {p} : ExhaustedMap(stored, q) = {}

\* the step is a reset or crosses a date change
ResetOrDateChange ==
    \/ today' # today
    \/ \E p \in Providers : ResetProviderTokens(p)
    \/ ResetAllTokens

\* C26: across every step of a tracker operation or of a run that is neither
\* a reset nor a date change, every (provider, token) pair isTokenExhausted
\* reports exhausted before the step is reported exhausted after it.
C26_MonotonicExhaustion ==
    [][~ResetOrDateChange =>
          \A p \in Providers, t \in Range(TokenName) :
              isTokenExhausted(stored, today, p, t)
                => isTokenExhausted(stored', today', p, t)]_vars

\* a run marked one token after another caller marked a different pair, and
\* both pairs are reported exhausted
C26_Witness ==
    \E r \in Runs, p \in Providers, t \in EnvTokens :
        /\ runs[r].marked # {}
        /\ isTokenExhausted(stored, today, p, t)
        /\ (p # runs[r].provider \/ t \notin runs[r].marked)
        /\ \A u \in runs[r].marked : isTokenExhausted(stored, today, runs[r].provider, u)

\* the position of the first occurrence of token t in the list
Position(tokens, t) ==
    CHOOSE i \in 1 .. Len(tokens) :
        tokens[i] = t /\ \A j \in 1 .. i - 1 : tokens[j] # t

\* the part of the list behind position i
After(tokens, i) == SubSeq(tokens, i + 1, Len(tokens))

\* C27: in a run that nobody else disturbs (no other writer, no reset, no
\* date change) the first call takes the first token of the list that is
\* available, and each further call takes a token other than the one just
\* tried, behind it in the list: the first one behind it that is available
\* once the token just tried is marked;
\* every quota failure marks a token not marked before, so no token is passed
\* to the operation twice.
C27_ListOrder ==
    /\ [](\A r \in Runs :
             /\ Cardinality(runs[r].marked) = runs[r].attempts
             /\ runs[r].tokenCalls <= Cardinality(Range(runs[r].allTokens))
             /\ runs[r].tokenCalls <= runs[r].attempts + 1)
    /\ [][\A r \in Runs :
             /\ (runs[r].pc = "idle" /\ runs'[r].pc = "awaitToken") =>
                   runs'[r].token
                     = FirstAvailable(stored, today, runs'[r].provider, runs'[r].allTokens)
             /\ (runs[r].pc = "awaitToken" /\ runs'[r].pc = "awaitToken") =>
                   LET tokens == runs[r].allTokens
                       tried == Position(tokens, runs[r].token)
                   IN  /\ runs'[r].token # runs[r].token
                       /\ runs'[r].token \notin runs'[r].marked
                       /\ Position(tokens, runs'[r].token) > tried
                       /\ runs'[r].token
                            = FirstAvailable(stored', today', runs[r].provider,
                                             After(tokens, tried))]_vars

\* the first token was flagged before the run started; the run tried the
\* second, which failed with a quota error, and is now trying the third
C27_Witness ==
    \E r \in Runs :
        /\ runs[r].pc = "awaitToken"
        /\ Len(runs[r].allTokens) >= 3
        /\ runs[r].tokenCalls = 2
        /\ runs[r].marked = {runs[r].allTokens[2]}
        /\ runs[r].token = runs[r].allTokens[3]
        /\ isTokenExhausted(stored, today, runs[r].provider, runs[r].allTokens[1])

\* C28: a step of a run changes the persisted record only when the call with
\* a token of the run's list failed with a quota error, and then the readers
\* see exactly one more flag than before: that token under the run's
\* provider.  Every other step of a run leaves the record as it was, and the
\* tokens a run marked are tokens of its list.
C28_RunFrame ==
    /\ [](\A r \in Runs : runs[r].marked \subseteq Range(runs[r].allTokens))
    /\ [][\A r \in Runs :
             runs'[r] # runs[r] =>
                IF QuotaStep(r)
                THEN /\ runs[r].token \in Range(runs[r].allTokens)
                     /\ runs[r].tokenCalls >= 1
                     /\ runs'[r].marked = runs[r].marked \cup {runs[r].token}
                     /\ MarksExactly(runs[r].provider, runs[r].token)
                ELSE /\ stored' = stored
                     /\ runs'[r].marked = runs[r].marked]_vars

\* a run over a one-token list saw its token fail with a quota error and
\* returned: that flag is the only one in the record
C28_Witness ==
    \E r \in Runs :
        /\ runs[r].pc = "done"
        /\ Len(runs[r].allTokens) = 1
        /\ runs[r].marked = {runs[r].allTokens[1]}
        /\ stored.kind = "json" /\ stored.date = today
        /\ \A p \in Providers :
              ExhaustedMap(stored, p)
                = IF p = runs[r].provider THEN runs[r].marked ELSE {}

\* C29: a run calls the operation with no token at most once and only when
\* anonymous access is allowed; at the moment of that call no token of its
\* list is available under its provider; the run makes no call after it: its
\* next step returns.
C29_AnonymousOnceAndLast ==
    /\ [](\A r \in Runs :
             /\ runs[r].anonCalls <= 1
             /\ runs[r].anonCalls = 1 => runs[r].allowAnonymous
             /\ runs[r].pc = "awaitAnon" => runs[r].anonCalls = 1)
    /\ [][\A r \in Runs :
             /\ runs'[r].anonCalls # runs[r].anonCalls =>
                   /\ runs'[r].anonCalls = 1
                   /\ runs'[r].pc = "awaitAnon"
                   /\ runs'[r].token = Null
                   /\ runs'[r].allowAnonymous
                   /\ AvailablePositions(stored', today', runs'[r].provider,
                                         runs'[r].allTokens) = {}
             /\ (runs[r].anonCalls = 1 /\ runs'[r] # runs[r]) =>
                   /\ runs[r].pc = "awaitAnon"
                   /\ runs'[r].pc = "done"
                   /\ runs'[r].tokenCalls = runs[r].tokenCalls
                   /\ runs'[r].anonCalls = 1]_vars

\* a run over two tokens saw both fail with a quota error, called the
\* operation with no token, and that call failed: the run returned after
\* three calls, the anonymous one last
C29_Witness ==
    \E r \in Runs :
        /\ runs[r].pc = "done"
        /\ runs[r].step = "anonRejected"
        /\ runs[r].tokenCalls = 2
        /\ runs[r].anonCalls = 1
        /\ Cardinality(runs[r].marked) = 2

(***************************************************************************)
(* CapSpec: one run with nobody else writing the record, on lists with     *)
(* more distinct tokens than the loop has attempts.                        *)
(***************************************************************************)
OverCapLists ==
    ShortLists \cup {Distinct(n) : n \in MAX_RETRY_ATTEMPTS .. MAX_RETRY_ATTEMPTS + 1}

CapNext ==
    \/ \E p \in Providers, tokens \in OverCapLists, anon \in BOOLEAN :
          StartRun(1, p, tokens, anon)
    \/ \E r \in Runs, d \in Data : TokenCallResolves(r, d)
    \/ \E r \in Runs, e \in RunErrors : TokenCallRejectsQuota(r, e)
    \/ \E r \in Runs, e \in RunErrors : TokenCallRejectsOther(r, e)
    \/ \E r \in Runs, d \in Data : AnonCallResolves(r, d)
    \/ \E r \in Runs, e \in RunErrors : AnonCallRejects(r, e)

CapSpec == SoloInit /\ [][CapNext]_vars

\* C30: whenever a run has returned a failure with isAllExhausted = true
\* (nobody else writing, no date change), getNextAvailableToken finds no
\* token of the run's list available under its provider.
C30_AllExhaustedFlag ==
    \A r \in Runs :
        (runs[r].pc = "done" /\ ~runs[r].result.success /\ runs[r].result.isAllExhausted)
          => getNextAvailableToken(stored, today, runs[r].provider, runs[r].allTokens) = Null
====
